---- MODULE Spec2Model ----
(***************************************************************************)
(* Model of pyano.piano.Piano (src/pyano/piano.py): a stateful wrapper     *)
(* around the mingus FluidSynthSequencer.  The wrapper keeps the flags     *)
(* _sound_fonts_loaded, _sound_fonts_path, _current_audio_driver,          *)
(* _audio_driver_is_active and instrument; every engine call it makes is   *)
(* recorded in `calls` together with the engine state the call met.        *)
(***************************************************************************)
EXTENDS Integers, Sequences, FiniteSets, TLC

(***************************************************************************)
(* Bounds of the model.                                                    *)
(***************************************************************************)
\* largest number of distinct notes in a NoteContainer, Bar or Track
MaxNotes == 2

(***************************************************************************)
(* Program constants.                                                      *)
(***************************************************************************)
\* keys of the piano keyboard (keys 0 .. KeyboardSize - 1)
KeyboardSize == 88
\* samples per second of a recording
SampleRate == 44100
\* default of play's record_seconds
DefaultRecordSeconds == 4
\* channel and bank of every set_instrument call
InstrumentChannel == 1
InstrumentBank == 0
\* the id fluidsynth's sfload returns on failure
FLUID_FAILED == -1

\* A path value: isPath tells a pathlib.Path from a plain str
PathOf(f) == [isPath |-> TRUE, file |-> f]
StrOf(f) == [isPath |-> FALSE, file |-> f]

DEFAULT_SOUND_FONTS == PathOf("FluidR3_GM.sf2")

VALID_AUDIO_DRIVERS ==
    {"None", "alsa", "oss", "jack", "portaudio", "sndmgr", "coreaudio",
     "Direct Sound", "dsound", "pulseaudio"}

DEFAULT_INSTRUMENTS ==
    ("Acoustic Grand Piano" :> 0) @@ ("Bright Acoustic Piano" :> 1) @@
    ("Electric Grand Piano" :> 2) @@ ("Honky-tonk Piano" :> 3) @@
    ("Electric Piano 1" :> 4) @@ ("Electric Piano 2" :> 5) @@
    ("Harpsichord" :> 6) @@ ("Clavi" :> 7)

\* An instrument argument is a str (a name) or an int (a program number)
InstrName(n) == [isName |-> TRUE, name |-> n, num |-> 0]
InstrNum(k) == [isName |-> FALSE, name |-> "", num |-> k]
NoInstr == InstrName("")

\* Path.__eq__: a Path equals only another Path of the same file
PathEq(a, b) == a.isPath /\ b.isPath /\ a.file = b.file

\* Path(x) of a str or a Path
Path(x) == PathOf(x.file)

(***************************************************************************)
(* Inputs.                                                                 *)
(***************************************************************************)
\* files the engine can load as a sound font
LoadableFiles == {"FluidR3_GM.sf2", "other.sf2"}
SoundFontArgs ==
    {DEFAULT_SOUND_FONTS, StrOf("FluidR3_GM.sf2"), StrOf("other.sf2"),
     StrOf("missing.sf2")}
AudioDriverArgs == {"None", "winmm"}
InstrumentArgs ==
    {InstrName("Acoustic Grand Piano"), InstrName("Banjo"), InstrNum(7)}
\* recording_file: "" is None
NoFile == ""
RecordingFileArgs == {NoFile, "out.wav"}
RecordSecondsArgs == {DefaultRecordSeconds}

\* Notes are numbered by key position: 0 .. KeyboardSize - 1 are the keys of
\* the piano, the numbers outside are notes below and above the keyboard.
NoteArgs == {-1, KeyboardSize - 1, KeyboardSize}
KeyArgs == {KeyboardSize - 1}
NoKey == -1

NoteSets == {ns \in SUBSET NoteArgs : Cardinality(ns) <= MaxNotes}

\* A music container: its class, the notes in it, the key (int, PianoKey).
\* A str with no note is a string Note() cannot parse.
Container(k, ns, key) == [kind |-> k, notes |-> ns, key |-> key]
ContainerArgs ==
    {Container("str", ns, NoKey) : ns \in {{}} \cup {{n} : n \in NoteArgs}}
    \cup {Container("Note", {n}, NoKey) : n \in NoteArgs}
    \cup {Container(k, ns, NoKey) :
              k \in {"NoteContainer", "Bar", "Track"}, ns \in NoteSets}
    \cup {Container(k, {}, key) : k \in {"int", "PianoKey"}, key \in KeyArgs}
NoContainer == Container("", {}, NoKey)
\* stop looks at the class of its argument only
StopArgs == {c \in ContainerArgs : c.notes \subseteq {KeyboardSize - 1}}

(***************************************************************************)
(* The keyboard and the note utilities (pyano.keyboard, pyano.utils).      *)
(***************************************************************************)
\* PianoKeyboard.distinct_key_names: the notes of the 88 keys
distinct_key_names == 0 .. (KeyboardSize - 1)
\* PianoKeyboard[i].get_as_note()
get_as_note(key) == key
\* PianoUtils.note_to_string / *_to_note_string_list: the notes of a container
note_string_list(c) == c.notes

(***************************************************************************)
(* The object and the engine as one record s:                              *)
(*   sound_fonts_loaded, sound_fonts_path, current_audio_driver,           *)
(*   audio_driver_is_active, instrument : the attributes of the Piano      *)
(*   sfid       : the id of the last sfload (FLUID_FAILED when it failed)  *)
(*   fs_driver  : the engine holds a live audio driver                     *)
(*   fs_font    : the engine holds the sound font sfid names               *)
(*   wav        : "none", "open" or "closed", the state of self.wav        *)
(*   last_driver_call : the last of start_audio_output and                 *)
(*                delete_fluid_audio_driver made, "none" before the first  *)
(*   calls      : the engine calls of the running operation                *)
(*   exc        : the exception the operation raised, "" for none          *)
(***************************************************************************)
\* An engine call, with the engine state it met
EngineCall(s, call, name, instr, notes, n) ==
    [call |-> call, name |-> name, instr |-> instr, notes |-> notes, n |-> n,
     drv |-> s.fs_driver, font |-> s.fs_font, wav |-> s.wav,
     prev |-> s.last_driver_call]

Log(s, call, name, instr, notes, n) ==
    [s EXCEPT !.calls = Append(@, EngineCall(s, call, name, instr, notes, n))]

Raise(s, e) == [s EXCEPT !.exc = e]

\* self.fs.sfunload(self.sfid)
fs_sfunload(s) ==
    [Log(s, "sfunload", "", NoInstr, {}, s.sfid) EXCEPT
        !.fs_font = IF s.sfid # FLUID_FAILED THEN FALSE ELSE @]

\* self.load_sound_font(str(path)): self.sfid = sfload(path); sfid != -1
load_sound_font(s, file) ==
    LET ok == file \in LoadableFiles
    IN [Log(s, "sfload", file, NoInstr, {}, 0) EXCEPT
           !.sfid = IF ok THEN 1 ELSE FLUID_FAILED,
           !.fs_font = IF ok THEN TRUE ELSE @]

\* self.start_audio_output(driver)
start_audio_output(s, driver) ==
    [Log(s, "start_audio_output", driver, NoInstr, {}, 0) EXCEPT
        !.fs_driver = TRUE, !.last_driver_call = "start_audio_output"]

\* fs.delete_fluid_audio_driver(self.fs.audio_driver)
delete_fluid_audio_driver(s) ==
    [Log(s, "delete_fluid_audio_driver", "", NoInstr, {}, 0) EXCEPT
        !.fs_driver = FALSE, !.last_driver_call = "delete_fluid_audio_driver"]

\* self.fs.program_reset()
program_reset(s) == Log(s, "program_reset", "", NoInstr, {}, 0)

\* self.set_instrument(channel=1, instr=..., bank=0)
set_instrument(s, channel, instr, bank) ==
    Log(s, "set_instrument", "", instr, {channel}, bank)

\* self.start_recording(file): self.wav = wave.open(file, "wb")
start_recording(s, file) ==
    [Log(s, "start_recording", file, NoInstr, {}, 0) EXCEPT !.wav = "open"]

\* self.fs.get_samples(int(record_seconds * 44100))
get_samples(s, n) == Log(s, "get_samples", "", NoInstr, {}, n)

\* self.wav.writeframes(bytes(samples))
writeframes(s) == Log(s, "writeframes", "", NoInstr, {}, 0)

\* self.wav.close()
wav_close(s) == [Log(s, "close", "", NoInstr, {}, 0) EXCEPT !.wav = "closed"]

\* play_Note, play_NoteContainer, play_Bar, play_Track
LowLevelPlay == {"play_Note", "play_NoteContainer", "play_Bar", "play_Track"}
low_level_play(s, method, notes) == Log(s, method, "", NoInstr, notes, 0)

\* stop_Note, stop_NoteContainer, stop_everything
low_level_stop(s, method, notes) == Log(s, method, "", NoInstr, notes, 0)

(***************************************************************************)
(* The methods of Piano.                                                   *)
(***************************************************************************)
_unload_sound_fonts(s) ==
    IF s.sound_fonts_loaded THEN fs_sfunload(s) ELSE s

\* load_sound_fonts assigning _sound_fonts_path before the engine load
load_sound_fonts_assign_first(s, sound_fonts_path) ==
    LET s0 == [s EXCEPT !.sound_fonts_path = sound_fonts_path]
        s1 == IF s0.sound_fonts_loaded THEN _unload_sound_fonts(s0) ELSE s0
        s2 == load_sound_font(s1, sound_fonts_path.file)
    IN IF s2.sfid = FLUID_FAILED
       THEN Raise(s2, "Exception")
       ELSE [s2 EXCEPT !.sound_fonts_loaded = TRUE]

load_sound_fonts(s, sound_fonts_path) ==
    LET s1 == IF s.sound_fonts_loaded THEN _unload_sound_fonts(s) ELSE s
        s2 == load_sound_font(s1, sound_fonts_path.file)
    IN IF s2.sfid = FLUID_FAILED
       THEN Raise(s2, "Exception")
       ELSE [s2 EXCEPT !.sound_fonts_loaded = TRUE,
                       !.sound_fonts_path = sound_fonts_path]

\* _start_audio_output without the test of _audio_driver_is_active
_start_audio_output_unguarded(s) ==
    IF s.current_audio_driver \notin VALID_AUDIO_DRIVERS
    THEN Raise(s, "ValueError")
    ELSE [program_reset(start_audio_output(s, s.current_audio_driver))
             EXCEPT !.audio_driver_is_active = TRUE]

\* _start_audio_output without the test against VALID_AUDIO_DRIVERS
_start_audio_output_unvalidated(s) ==
    IF ~s.audio_driver_is_active
    THEN [program_reset(start_audio_output(s, s.current_audio_driver))
             EXCEPT !.audio_driver_is_active = TRUE]
    ELSE s

_start_audio_output(s) ==
    IF s.current_audio_driver \notin VALID_AUDIO_DRIVERS
    THEN Raise(s, "ValueError")
    ELSE IF ~s.audio_driver_is_active
         THEN [program_reset(start_audio_output(s, s.current_audio_driver))
                  EXCEPT !.audio_driver_is_active = TRUE]
         ELSE s

\* _stop_audio_output without the test of _audio_driver_is_active
_stop_audio_output_unguarded(s) ==
    [program_reset(delete_fluid_audio_driver(s))
        EXCEPT !.audio_driver_is_active = FALSE]

_stop_audio_output(s) ==
    IF s.audio_driver_is_active
    THEN [program_reset(delete_fluid_audio_driver(s))
             EXCEPT !.audio_driver_is_active = FALSE]
    ELSE s

\* load_instrument assigning self.instrument before it validates the name
load_instrument_assign_first(s, instrument) ==
    LET s1 == [s EXCEPT !.instrument = instrument]
    IN IF PathEq(s.sound_fonts_path, DEFAULT_SOUND_FONTS)
       THEN IF ~(instrument.isName
                 /\ instrument.name \in DOMAIN DEFAULT_INSTRUMENTS)
            THEN Raise(s1, "ValueError")
            ELSE set_instrument(s1, InstrumentChannel,
                                InstrNum(DEFAULT_INSTRUMENTS[instrument.name]),
                                InstrumentBank)
       ELSE set_instrument(s1, InstrumentChannel, instrument, InstrumentBank)

load_instrument(s, instrument) ==
    IF PathEq(s.sound_fonts_path, DEFAULT_SOUND_FONTS)
    THEN IF ~(instrument.isName /\ instrument.name \in DOMAIN DEFAULT_INSTRUMENTS)
         THEN Raise(s, "ValueError")
         ELSE [set_instrument(s, InstrumentChannel,
                              InstrNum(DEFAULT_INSTRUMENTS[instrument.name]),
                              InstrumentBank)
                  EXCEPT !.instrument = instrument]
    ELSE [set_instrument(s, InstrumentChannel, instrument, InstrumentBank)
             EXCEPT !.instrument = instrument]

\* _lint_music_container without the comparison against the keyboard
_lint_music_container_no_diff(s, c) ==
    IF c.kind = "str" /\ c.notes = {}
    THEN Raise(s, "NoteFormatError")
    ELSE IF c.kind \notin {"str", "Note", "NoteContainer", "Bar", "Track"}
    THEN Raise(s, "Exception")
    ELSE s

\* The isinstance chain has branches for str, Note, NoteContainer, Bar and
\* Track only; an int and a PianoKey (a class of pyano.keyboard that is
\* converted with get_as_note) fall through to the final else.
_lint_music_container(s, c) ==
    IF c.kind = "str" /\ c.notes = {}
    THEN Raise(s, "NoteFormatError")
    ELSE IF c.kind \notin {"str", "Note", "NoteContainer", "Bar", "Track"}
    THEN Raise(s, "Exception")
    ELSE IF note_string_list(c) \ distinct_key_names # {}
    THEN Raise(s, "ValueError")
    ELSE s

\* For a str, Note(music_container) is evaluated before play_Note and raises
\* on a string it cannot parse.
_play_music_container(s, c) ==
    CASE c.kind = "str" ->
             IF c.notes = {}
             THEN Raise(s, "NoteFormatError")
             ELSE low_level_play(s, "play_Note", c.notes)
      [] c.kind = "int" -> low_level_play(s, "play_Note", {get_as_note(c.key)})
      [] c.kind = "Note" -> low_level_play(s, "play_Note", c.notes)
      [] c.kind = "NoteContainer" ->
             low_level_play(s, "play_NoteContainer", c.notes)
      [] c.kind = "Bar" -> low_level_play(s, "play_Bar", c.notes)
      [] c.kind = "Track" -> low_level_play(s, "play_Track", c.notes)
      [] OTHER -> s

\* play restarting audio output before it closes the recording file
play_restart_before_close(s, music_container, recording_file, record_seconds, stop_recording) ==
    LET s0 == _lint_music_container(s, music_container)
    IN IF s0.exc # "" THEN s0
       ELSE IF recording_file = NoFile
       THEN LET s1 == _start_audio_output(s0)
            IN IF s1.exc # "" THEN s1
               ELSE _play_music_container(s1, music_container)
       ELSE LET s1 == start_recording(_stop_audio_output(s0), recording_file)
                s2 == _play_music_container(s1, music_container)
                s3 == writeframes(get_samples(s2, record_seconds * SampleRate))
                s4 == _start_audio_output(s3)
            IN IF s2.exc # "" THEN s2
               ELSE IF stop_recording
               THEN IF s4.exc # "" THEN s4 ELSE wav_close(s4)
               ELSE s3

\* play closing the recording file whatever stop_recording says
play_always_close(s, music_container, recording_file, record_seconds, stop_recording) ==
    LET s0 == _lint_music_container(s, music_container)
    IN IF s0.exc # "" THEN s0
       ELSE IF recording_file = NoFile
       THEN LET s1 == _start_audio_output(s0)
            IN IF s1.exc # "" THEN s1
               ELSE _play_music_container(s1, music_container)
       ELSE LET s1 == start_recording(_stop_audio_output(s0), recording_file)
                s2 == _play_music_container(s1, music_container)
                s3 == writeframes(get_samples(s2, record_seconds * SampleRate))
            IN IF s2.exc # "" THEN s2
               ELSE _start_audio_output(wav_close(s3))

play(s, music_container, recording_file, record_seconds, stop_recording) ==
    LET s0 == _lint_music_container(s, music_container)
    IN IF s0.exc # "" THEN s0
       ELSE IF recording_file = NoFile
       THEN LET s1 == _start_audio_output(s0)
            IN IF s1.exc # "" THEN s1
               ELSE _play_music_container(s1, music_container)
       ELSE LET s1 == start_recording(_stop_audio_output(s0), recording_file)
                s2 == _play_music_container(s1, music_container)
                s3 == writeframes(get_samples(s2, record_seconds * SampleRate))
            IN IF s2.exc # "" THEN s2
               ELSE IF stop_recording
               THEN _start_audio_output(wav_close(s3))
               ELSE s3

stop(s, c) ==
    IF c.kind = "str"
    THEN IF c.notes = {}
         THEN Raise(s, "ValueError")
         ELSE low_level_stop(s, "stop_Note", c.notes)
    ELSE IF c.kind = "NoteContainer"
    THEN low_level_stop(s, "stop_NoteContainer", c.notes)
    ELSE low_level_stop(s, "stop_everything", {})

\* Piano.pause(seconds): time.sleep, no attribute and no engine call
pause(s, seconds) == s

\* The attributes and the engine before __init__ has assigned anything
Blank ==
    [sound_fonts_loaded |-> FALSE, sound_fonts_path |-> DEFAULT_SOUND_FONTS,
     current_audio_driver |-> "None", audio_driver_is_active |-> FALSE,
     instrument |-> NoInstr, sfid |-> FLUID_FAILED, fs_driver |-> FALSE,
     fs_font |-> FALSE, wav |-> "none", last_driver_call |-> "none",
     calls |-> <<>>, exc |-> ""]

\* __init__ starting audio output itself instead of leaving it to play
__init__eager(sound_fonts_path, audio_driver, instrument) ==
    LET s0 == [Blank EXCEPT !.sound_fonts_path = Path(sound_fonts_path),
                            !.sound_fonts_loaded = FALSE]
        s1 == load_sound_fonts(s0, s0.sound_fonts_path)
        s2 == _start_audio_output(
                  [s1 EXCEPT !.current_audio_driver = audio_driver,
                             !.audio_driver_is_active = FALSE,
                             !.instrument = instrument])
    IN IF s1.exc # "" THEN s1
       ELSE IF s2.exc # "" THEN s2
       ELSE load_instrument(s2, instrument)

__init__(sound_fonts_path, audio_driver, instrument) ==
    LET s0 == [Blank EXCEPT !.sound_fonts_path = Path(sound_fonts_path),
                            !.sound_fonts_loaded = FALSE]
        s1 == load_sound_fonts(s0, s0.sound_fonts_path)
    IN IF s1.exc # "" THEN s1
       ELSE load_instrument(
                [s1 EXCEPT !.current_audio_driver = audio_driver,
                           !.audio_driver_is_active = FALSE,
                           !.instrument = instrument],
                instrument)

(***************************************************************************)
(* The state machine: a constructed Piano and the calls of its methods.    *)
(***************************************************************************)
VARIABLES sound_fonts_loaded, sound_fonts_path, current_audio_driver,
          audio_driver_is_active, instrument, sfid, fs_driver, fs_font, wav,
          last_driver_call, calls, exc, lastOp

vars == <<sound_fonts_loaded, sound_fonts_path, current_audio_driver,
          audio_driver_is_active, instrument, sfid, fs_driver, fs_font, wav,
          last_driver_call, calls, exc, lastOp>>

\* The operation that ran last and its arguments
Op(op, c, file, secs, stopRec, path, instr) ==
    [op |-> op, container |-> c, recording_file |-> file,
     record_seconds |-> secs, stop_recording |-> stopRec,
     path |-> path, instr |-> instr]

\* The state at the start of an operation
Self ==
    [sound_fonts_loaded |-> sound_fonts_loaded,
     sound_fonts_path |-> sound_fonts_path,
     current_audio_driver |-> current_audio_driver,
     audio_driver_is_active |-> audio_driver_is_active,
     instrument |-> instrument, sfid |-> sfid, fs_driver |-> fs_driver,
     fs_font |-> fs_font, wav |-> wav, last_driver_call |-> last_driver_call,
     calls |-> <<>>, exc |-> ""]

IsState(s) ==
    /\ sound_fonts_loaded = s.sound_fonts_loaded
    /\ sound_fonts_path = s.sound_fonts_path
    /\ current_audio_driver = s.current_audio_driver
    /\ audio_driver_is_active = s.audio_driver_is_active
    /\ instrument = s.instrument
    /\ sfid = s.sfid
    /\ fs_driver = s.fs_driver
    /\ fs_font = s.fs_font
    /\ wav = s.wav
    /\ last_driver_call = s.last_driver_call
    /\ calls = s.calls
    /\ exc = s.exc

Becomes(s) ==
    /\ sound_fonts_loaded' = s.sound_fonts_loaded
    /\ sound_fonts_path' = s.sound_fonts_path
    /\ current_audio_driver' = s.current_audio_driver
    /\ audio_driver_is_active' = s.audio_driver_is_active
    /\ instrument' = s.instrument
    /\ sfid' = s.sfid
    /\ fs_driver' = s.fs_driver
    /\ fs_font' = s.fs_font
    /\ wav' = s.wav
    /\ last_driver_call' = s.last_driver_call
    /\ calls' = s.calls
    /\ exc' = s.exc

\* A Piano whose construction returned
Init ==
    \E p \in SoundFontArgs, d \in AudioDriverArgs, i \in InstrumentArgs :
        LET s == __init__(p, d, i)
        IN /\ s.exc = ""
           /\ IsState(s)
           /\ lastOp = Op("__init__", NoContainer, NoFile, 0, FALSE, p, i)

Play ==
    \E c \in ContainerArgs, f \in RecordingFileArgs,
       secs \in RecordSecondsArgs, stopRec \in BOOLEAN :
        /\ Becomes(play(Self, c, f, secs, stopRec))
        /\ lastOp' = Op("play", c, f, secs, stopRec, DEFAULT_SOUND_FONTS, NoInstr)

LoadSoundFonts ==
    \E p \in SoundFontArgs :
        /\ Becomes(load_sound_fonts(Self, p))
        /\ lastOp' = Op("load_sound_fonts", NoContainer, NoFile, 0, FALSE, p,
                        NoInstr)

LoadInstrument ==
    \E i \in InstrumentArgs :
        /\ Becomes(load_instrument(Self, i))
        /\ lastOp' = Op("load_instrument", NoContainer, NoFile, 0, FALSE,
                        DEFAULT_SOUND_FONTS, i)

Stop ==
    \E c \in StopArgs :
        /\ Becomes(stop(Self, c))
        /\ lastOp' = Op("stop", c, NoFile, 0, FALSE, DEFAULT_SOUND_FONTS,
                        NoInstr)

Pause ==
    \E secs \in RecordSecondsArgs :
        /\ Becomes(pause(Self, secs))
        /\ lastOp' = Op("pause", NoContainer, NoFile, secs, FALSE,
                        DEFAULT_SOUND_FONTS, NoInstr)

Next == Play \/ LoadSoundFonts \/ LoadInstrument \/ Stop \/ Pause

Spec == Init /\ [][Next]_vars

(***************************************************************************)
(* Properties.                                                             *)
(***************************************************************************)
\* The engine call `name` was made by the operation that ran last
Made(name) == \E i \in DOMAIN calls : calls[i].call = name
\* The position of the engine call `name` among the calls of the operation
Idx(name) == CHOOSE i \in DOMAIN calls : calls[i].call = name
Count(names) == Cardinality({i \in DOMAIN calls : calls[i].call \in names})

NoteKinds == {"str", "Note", "NoteContainer", "Bar", "Track"}
SignatureKinds == NoteKinds \cup {"int", "PianoKey"}
\* The container holds a note that is not a key of the keyboard
HasInvalidNote(c) ==
    c.kind \in NoteKinds /\ c.notes \ distinct_key_names # {}
\* Every note of the container is a key of the keyboard
AllOnKeyboard(c) ==
    \/ c.kind \in NoteKinds \ {"str"} /\ c.notes \subseteq distinct_key_names
    \/ c.kind = "str" /\ c.notes # {} /\ c.notes \subseteq distinct_key_names
    \/ c.kind \in {"int", "PianoKey"} /\ c.key \in 0 .. (KeyboardSize - 1)
\* The last operation was a play call with a recording file that returned
RecordingPlayReturned(stopRec) ==
    /\ lastOp.op = "play"
    /\ lastOp.recording_file # NoFile
    /\ lastOp.stop_recording = stopRec
    /\ exc = ""

\* C1: delete_fluid_audio_driver is called only while the engine holds an
\* audio driver that start_audio_output started: every such call meets a live
\* driver and follows a start_audio_output with no other delete in between
\* (so never twice in a row and never before the first start).
C1_DeleteOnlyActiveDriver ==
    \A i \in DOMAIN calls :
        calls[i].call = "delete_fluid_audio_driver" =>
            calls[i].drv /\ calls[i].prev = "start_audio_output"

C1_Witness ==
    /\ lastOp.op = "play"
    /\ Made("delete_fluid_audio_driver")
    /\ ~audio_driver_is_active

\* C2: a play call on a str, Note, NoteContainer, Bar or Track holding a note
\* that is not on the keyboard raises ValueError and does nothing else: no
\* engine call at all (no low-level play, no driver start or stop, no
\* start_recording), and the driver flag, the engine's driver and the
\* recording file are as before the call.
C2_InvalidNoteRaisesFirst ==
    [][(lastOp'.op = "play" /\ HasInvalidNote(lastOp'.container)) =>
          /\ exc' = "ValueError"
          /\ calls' = <<>>
          /\ audio_driver_is_active' = audio_driver_is_active
          /\ fs_driver' = fs_driver
          /\ wav' = wav]_vars

C2_Witness ==
    /\ lastOp.op = "play"
    /\ HasInvalidNote(lastOp.container)
    /\ lastOp.container.notes \cap distinct_key_names # {}
    /\ lastOp.recording_file # NoFile
    /\ exc = "ValueError"
    /\ audio_driver_is_active

\* C3: play accepts each of str, int, Note, NoteContainer, Bar, Track and
\* PianoKey: when every note of the container is on the keyboard (and the
\* audio driver name is a valid one) the call returns and has made exactly
\* one low-level play call, which for an int is play_Note of keyboard[int].
C3_PlayAcceptsEveryKind ==
    (/\ lastOp.op = "play"
     /\ lastOp.container.kind \in SignatureKinds
     /\ AllOnKeyboard(lastOp.container)
     /\ current_audio_driver \in VALID_AUDIO_DRIVERS) =>
        /\ exc = ""
        /\ Count(LowLevelPlay) = 1
        /\ lastOp.container.kind = "int" =>
               /\ calls[Idx("play_Note")].call = "play_Note"
               /\ calls[Idx("play_Note")].notes
                      = {get_as_note(lastOp.container.key)}

\* C4: a play call with a recording file and stop_recording = True that
\* returns has made its engine calls in this order: delete_fluid_audio_driver
\* (if any) before start_recording, which meets no live driver; the low-level
\* play, get_samples and writeframes between start_recording and close, with
\* the file open and no live driver; start_audio_output after close; and on
\* return _audio_driver_is_active is true.
C4_RecordingSwitchesModesInOrder ==
    RecordingPlayReturned(TRUE) =>
        /\ Count({"start_recording"}) = 1
        /\ Count({"close"}) = 1
        /\ Count({"start_audio_output"}) = 1
        /\ Count(LowLevelPlay) = 1
        /\ Count({"writeframes"}) = 1
        /\ ~calls[Idx("start_recording")].drv
        /\ \A i \in DOMAIN calls :
               /\ calls[i].call = "delete_fluid_audio_driver" =>
                      i < Idx("start_recording")
               /\ calls[i].call \in LowLevelPlay
                                    \cup {"get_samples", "writeframes"} =>
                      /\ Idx("start_recording") < i
                      /\ i < Idx("close")
                      /\ ~calls[i].drv
                      /\ calls[i].wav = "open"
        /\ Idx("close") < Idx("start_audio_output")
        /\ calls[Idx("start_audio_output")].wav = "closed"
        /\ audio_driver_is_active
        /\ fs_driver

C4_Witness ==
    /\ RecordingPlayReturned(TRUE)
    /\ Made("delete_fluid_audio_driver")
    /\ Made("play_Bar")
    /\ audio_driver_is_active

\* C5: audio output is lazy: the constructor makes no start_audio_output call
\* and leaves _audio_driver_is_active false; start_audio_output is called by
\* play calls only; and a play call without a recording file that returns
\* leaves _audio_driver_is_active true.
C5_AudioOutputIsLazy ==
    /\ lastOp.op = "__init__" =>
           /\ ~audio_driver_is_active
           /\ ~Made("start_audio_output")
           /\ last_driver_call = "none"
    /\ Made("start_audio_output") => lastOp.op = "play"
    /\ (lastOp.op = "play" /\ lastOp.recording_file = NoFile /\ exc = "") =>
           audio_driver_is_active /\ fs_driver

C5_Witness ==
    /\ lastOp.op = "play"
    /\ lastOp.recording_file = NoFile
    /\ exc = ""
    /\ Made("start_audio_output")
    /\ calls[Idx("start_audio_output")].prev = "none"
    /\ audio_driver_is_active

\* C6: while _sound_fonts_path equals DEFAULT_SOUND_FONTS, load_instrument
\* with an argument that is no key of DEFAULT_INSTRUMENTS raises ValueError,
\* makes no engine call and leaves self.instrument as it was; with a key it
\* makes the one call set_instrument(channel 1, bank 0, mapped program) and
\* sets self.instrument to the name.
C6_LoadInstrumentValidates ==
    [][(lastOp'.op = "load_instrument"
        /\ PathEq(sound_fonts_path, DEFAULT_SOUND_FONTS)) =>
          IF lastOp'.instr.isName
             /\ lastOp'.instr.name \in DOMAIN DEFAULT_INSTRUMENTS
          THEN /\ exc' = ""
               /\ Len(calls') = 1
               /\ calls'[1].call = "set_instrument"
               /\ calls'[1].notes = {InstrumentChannel}
               /\ calls'[1].n = InstrumentBank
               /\ calls'[1].instr
                      = InstrNum(DEFAULT_INSTRUMENTS[lastOp'.instr.name])
               /\ instrument' = lastOp'.instr
          ELSE /\ exc' = "ValueError"
               /\ calls' = <<>>
               /\ instrument' = instrument]_vars

C6_Witness ==
    /\ lastOp.op = "load_instrument"
    /\ PathEq(sound_fonts_path, DEFAULT_SOUND_FONTS)
    /\ exc = "ValueError"
    /\ lastOp.instr # instrument
    /\ calls = <<>>

\* C7: a play call with a recording file and stop_recording = False that
\* returns leaves the file open and audio output off: no close and no
\* start_audio_output call was made, self.wav is open and
\* _audio_driver_is_active is false.
C7_RecordingLeftOpen ==
    RecordingPlayReturned(FALSE) =>
        /\ Made("start_recording")
        /\ ~Made("close")
        /\ ~Made("start_audio_output")
        /\ wav = "open"
        /\ ~audio_driver_is_active
        /\ ~fs_driver

C7_Witness ==
    /\ RecordingPlayReturned(FALSE)
    /\ Made("delete_fluid_audio_driver")
    /\ wav = "open"

\* C8: sfunload is called only while the engine holds a sound font loaded by
\* an earlier successful load.
C8_UnloadOnlyLoadedFont ==
    \A i \in DOMAIN calls : calls[i].call = "sfunload" => calls[i].font

\* C9: start_audio_output is never called while the engine holds a live
\* driver; start_audio_output and delete_fluid_audio_driver alternate,
\* beginning with start_audio_output; and an audio play that follows an audio
\* play that returned does not start the driver again.
C9_StartOnlyWhenInactive ==
    /\ [](\A i \in DOMAIN calls :
              /\ calls[i].call = "start_audio_output" =>
                     /\ ~calls[i].drv
                     /\ calls[i].prev \in {"none", "delete_fluid_audio_driver"}
              /\ calls[i].call = "delete_fluid_audio_driver" =>
                     calls[i].prev = "start_audio_output")
    /\ [][(/\ lastOp.op = "play" /\ lastOp.recording_file = NoFile /\ exc = ""
           /\ lastOp'.op = "play" /\ lastOp'.recording_file = NoFile) =>
             \A i \in DOMAIN calls' : calls'[i].call # "start_audio_output"]_vars

C9_Witness ==
    /\ lastOp.op = "play"
    /\ lastOp.recording_file = NoFile
    /\ exc = ""
    /\ audio_driver_is_active
    /\ Count(LowLevelPlay) = 1
    /\ ~Made("start_audio_output")

\* The last operation was a play call that reached _start_audio_output
RanStartAudioOutput ==
    /\ lastOp.op = "play"
    /\ lastOp.container.kind \in NoteKinds
    /\ AllOnKeyboard(lastOp.container)
    /\ lastOp.recording_file = NoFile \/ lastOp.stop_recording

\* C10: a driver name outside VALID_AUDIO_DRIVERS is never passed to
\* start_audio_output: with such a _current_audio_driver the flag
\* _audio_driver_is_active stays false, and a play call that reaches
\* _start_audio_output raises ValueError there, with no engine call after it.
C10_InvalidDriverNeverStarted ==
    /\ \A i \in DOMAIN calls :
           calls[i].call = "start_audio_output" =>
               calls[i].name \in VALID_AUDIO_DRIVERS
    /\ current_audio_driver \notin VALID_AUDIO_DRIVERS =>
           /\ ~audio_driver_is_active
           /\ ~fs_driver
           /\ RanStartAudioOutput =>
                  /\ exc = "ValueError"
                  /\ calls = <<>> \/ calls[Len(calls)].call = "close"

C10_Witness ==
    /\ current_audio_driver \notin VALID_AUDIO_DRIVERS
    /\ RanStartAudioOutput
    /\ lastOp.recording_file = NoFile
    /\ exc = "ValueError"
    /\ calls = <<>>

\* C11: load_sound_fonts replaces the current font: a font the engine holds
\* is unloaded (sfunload) before the sfload of the new one, which is the last
\* engine call; when the load succeeds _sound_fonts_loaded is true and
\* _sound_fonts_path is the path passed; when it fails Exception is raised
\* and _sound_fonts_path keeps the value it had.
C11_LoadSoundFontsReplaces ==
    [][lastOp'.op = "load_sound_fonts" =>
          /\ calls' # <<>>
          /\ calls'[Len(calls')].call = "sfload"
          /\ calls'[Len(calls')].name = lastOp'.path.file
          /\ Cardinality({i \in DOMAIN calls' : calls'[i].call = "sfload"}) = 1
          /\ fs_font =>
                 /\ calls'[1].call = "sfunload"
                 /\ calls'[1].font
                 /\ ~calls'[Len(calls')].font
          /\ IF lastOp'.path.file \in LoadableFiles
             THEN /\ exc' = ""
                  /\ sound_fonts_loaded'
                  /\ sound_fonts_path' = lastOp'.path
                  /\ fs_font'
             ELSE /\ exc' = "Exception"
                  /\ sound_fonts_path' = sound_fonts_path]_vars

C11_Witness ==
    /\ lastOp.op = "load_sound_fonts"
    /\ exc = "Exception"
    /\ sound_fonts_path # lastOp.path
    /\ Made("sfunload")
    /\ calls[Idx("sfunload")].font

\* C12: live audio output and file recording exclude each other: in no
\* reachable state is the audio driver live while the recording file that
\* start_recording opened is still open.
C12_AudioAndRecordingExclusive ==
    ~((audio_driver_is_active \/ fs_driver) /\ wav = "open")

\* C13: _sound_fonts_loaded agrees with the engine: it is true exactly when
\* the engine holds a loaded sound font.
C13_FlagAgreesWithEngine ==
    sound_fonts_loaded <=> fs_font

====
